---- MODULE Spec2Model ----
(***************************************************************************)
(* Model of scripts/convert-claude-plugin.mjs: the frontmatter codec       *)
(* (parseFrontmatter, parseSimpleYaml, coerceYamlScalar, formatFrontmatter)*)
(* the name normalizer and uniquifier (normalizeName, uniqueName) and the  *)
(* two installers (installOpenCode, installCodex).                         *)
(*                                                                         *)
(* Text is a sequence of one-character strings, so that every regular      *)
(* expression and string method of the source is computed character by     *)
(* character.                                                              *)
(***************************************************************************)
EXTENDS Integers, Sequences, FiniteSets, TLC

VARIABLES
    \* normalizeName driver
    nmPc, nmValue, nmResult, nmAgain,
    \* uniqueName driver: the Set passed as `used`, and the call history
    unPc, used, usedInitial, usedBefore, lastBase, returned,
    \* parseSimpleYaml: the lines, the loop position, `data`, `currentListKey`,
    \* and both as they were before the last line
    ymPc, lines, lineIdx, data, currentListKey, prevData, prevKey,
    \* formatFrontmatter followed by parseFrontmatter
    fmPc, fmHeader, fmBody, fmRaw, fmParsed,
    \* the loaded plugin: the arguments `commands` and `skills` of both installers
    inPc, commands, skills,
    \* the OpenCode root: skills/ and opencode.json; the last run of
    \* installOpenCode and the run before it
    ocSkills, ocConfig, ocLast, ocEarlier,
    \* the Codex root: skills/ and prompts/; the last run of installCodex and
    \* the run before it
    cxSkills, cxPrompts, cxLast, cxEarlier

nmVars == <<nmPc, nmValue, nmResult, nmAgain>>
unVars == <<unPc, used, usedInitial, usedBefore, lastBase, returned>>
ymVars == <<ymPc, lines, lineIdx, data, currentListKey, prevData, prevKey>>
fmVars == <<fmPc, fmHeader, fmBody, fmRaw, fmParsed>>
inVars ==
    <<inPc, commands, skills, ocSkills, ocConfig, ocLast, ocEarlier,
      cxSkills, cxPrompts, cxLast, cxEarlier>>
vars == <<nmVars, unVars, ymVars, fmVars, inVars>>

(***************************************************************************)
(* Bounds of the model                                                     *)
(***************************************************************************)
MaxNameLen == 4
MaxCalls == 3
MaxLines == 3
MaxHeaderLines == 2
MaxCommands == 2

(***************************************************************************)
(* Characters                                                              *)
(***************************************************************************)
Whitespace == {" ", "\t", "\n", "\r"}
UpperCase == {"A", "K"}
LowerCase ==
    {"a", "b", "d", "e", "f", "i", "j", "k", "l", "m", "r", "s", "t", "u", "x", "y"}
Digits == {"0", "1", "2", "3", "4", "5", "6", "7", "8", "9"}
AllChars ==
    Whitespace \cup UpperCase \cup LowerCase \cup Digits
        \cup {"-", "_", "/", "\\", ":", "!", ".", "#", "\"", "'"}

\* String.prototype.toLowerCase, on one character
LowerOf(c) == CASE c = "A" -> "a" [] c = "K" -> "k" [] OTHER -> c

toLowerCase(s) == [i \in 1..Len(s) |-> LowerOf(s[i])]

\* String.prototype.trim: whitespace removed at both ends
RECURSIVE TrimStart(_)
TrimStart(s) ==
    IF s # <<>> /\ Head(s) \in Whitespace THEN TrimStart(Tail(s)) ELSE s

RECURSIVE TrimEnd(_)
TrimEnd(s) ==
    IF s # <<>> /\ s[Len(s)] \in Whitespace
    THEN TrimEnd(SubSeq(s, 1, Len(s) - 1))
    ELSE s

Trim(s) == TrimEnd(TrimStart(s))

\* s.replace(/[class]+/g, "-"): every maximal run of characters of the class
\* becomes one "-"
RECURSIVE ReplaceRuns(_, _)
ReplaceRuns(s, class) ==
    IF s = <<>> THEN <<>>
    ELSE LET n == Len(s)
             init == ReplaceRuns(SubSeq(s, 1, n - 1), class)
         IN  IF s[n] \notin class THEN Append(init, s[n])
             ELSE IF n > 1 /\ s[n - 1] \in class THEN init
             ELSE Append(init, "-")

\* s.replace(/^-+|-+$/g, "")
RECURSIVE StripLeadingDashes(_)
StripLeadingDashes(s) ==
    IF s # <<>> /\ Head(s) = "-" THEN StripLeadingDashes(Tail(s)) ELSE s

RECURSIVE StripTrailingDashes(_)
StripTrailingDashes(s) ==
    IF s # <<>> /\ s[Len(s)] = "-"
    THEN StripTrailingDashes(SubSeq(s, 1, Len(s) - 1))
    ELSE s

StripDashes(s) == StripTrailingDashes(StripLeadingDashes(s))

SlugChars == LowerCase \cup Digits \cup {"_", "-"}

Placeholder == <<"i", "t", "e", "m">>

\* The replace chain of normalizeName, before the `|| "item"` default
NormalizeChain(trimmed) ==
    StripDashes(
        ReplaceRuns(
            ReplaceRuns(
                ReplaceRuns(
                    ReplaceRuns(toLowerCase(trimmed), {"\\", "/"}),
                    {":"} \cup Whitespace),
                AllChars \ SlugChars),
            {"-"}))

normalizeName_KeepDashes(value) ==
    LET trimmed == Trim(value)
        normalized ==
            ReplaceRuns(
                ReplaceRuns(
                    ReplaceRuns(
                        ReplaceRuns(toLowerCase(trimmed), {"\\", "/"}),
                        {":"} \cup Whitespace),
                    AllChars \ SlugChars),
                {"-"})
    IN  IF trimmed = <<>> THEN Placeholder
        ELSE IF normalized = <<>> THEN Placeholder ELSE normalized

normalizeName(value) ==
    LET trimmed == Trim(value)
        normalized == NormalizeChain(trimmed)
    IN  IF trimmed = <<>> THEN Placeholder
        ELSE IF normalized = <<>> THEN Placeholder ELSE normalized

(***************************************************************************)
(* uniqueName                                                              *)
(***************************************************************************)
\* String(index): the decimal digits of a positive integer
DigitChar(d) ==
    CASE d = 0 -> "0" [] d = 1 -> "1" [] d = 2 -> "2" [] d = 3 -> "3"
      [] d = 4 -> "4" [] d = 5 -> "5" [] d = 6 -> "6" [] d = 7 -> "7"
      [] d = 8 -> "8" [] d = 9 -> "9"

RECURSIVE Decimal(_)
Decimal(n) ==
    IF n < 10 THEN <<DigitChar(n)>>
    ELSE Append(Decimal(n \div 10), DigitChar(n % 10))

\* `${base}-${index}`
Suffixed(base, index) == base \o <<"-">> \o Decimal(index)

\* let index = 2; while (used.has(`${base}-${index}`)) index += 1
RECURSIVE ProbeIndex(_, _, _)
ProbeIndex(base, usedSet, index) ==
    IF Suffixed(base, index) \in usedSet
    THEN ProbeIndex(base, usedSet, index + 1)
    ELSE index

uniqueName_NoProbe(base, usedSet) ==
    IF base \notin usedSet THEN base ELSE Suffixed(base, 2)

\* the name uniqueName returns; the caller's set becomes usedSet \cup {name}
uniqueName(base, usedSet) ==
    IF base \notin usedSet THEN base
    ELSE Suffixed(base, ProbeIndex(base, usedSet, 2))

(***************************************************************************)
(* Frontmatter codec                                                       *)
(*                                                                         *)
(* A header mapping (a JavaScript object) is the sequence of its entries   *)
(* [key, value] in insertion order, which is the order Object.entries      *)
(* gives formatFrontmatter. A value is [t, s, items]: t is the JavaScript  *)
(* type ("string", "number", "boolean") or "list" for an Array; s is the   *)
(* text of a string, String(v) of a number or boolean; items are the       *)
(* elements of an Array.                                                   *)
(***************************************************************************)
LineTerminators == {"\n", "\r"}
KeyChars == UpperCase \cup LowerCase \cup Digits \cup {"_", "-"}

StringValue(text) == [t |-> "string", s |-> text, items |-> <<>>]
NumberValue(text) == [t |-> "number", s |-> text, items |-> <<>>]
BooleanValue(text) == [t |-> "boolean", s |-> text, items |-> <<>>]
ListValue(items) == [t |-> "list", s |-> <<>>, items |-> items]

NoLineTerminator(s) == \A i \in 1..Len(s) : s[i] \notin LineTerminators

\* the length of the longest prefix of s made of characters of the class
RECURSIVE PrefixLen(_, _)
PrefixLen(s, class) ==
    IF s # <<>> /\ Head(s) \in class THEN 1 + PrefixLen(Tail(s), class) ELSE 0

Drop(s, n) == SubSeq(s, n + 1, Len(s))

\* /^-?\d+(\.\d+)?$/.test(value)
IsNumeric(value) ==
    LET unsigned == IF value # <<>> /\ Head(value) = "-" THEN Tail(value) ELSE value
        intLen == PrefixLen(unsigned, Digits)
        rest == Drop(unsigned, intLen)
    IN  /\ intLen >= 1
        /\ \/ rest = <<>>
           \/ /\ Len(rest) >= 2
              /\ Head(rest) = "."
              /\ PrefixLen(Tail(rest), Digits) = Len(rest) - 1

\* String(Number(value)) of a numeral: leading zeros of the integer part and
\* trailing zeros of the fraction go, and so does the sign of zero
RECURSIVE StripLeadingZeros(_)
StripLeadingZeros(s) ==
    IF Len(s) > 1 /\ Head(s) = "0" THEN StripLeadingZeros(Tail(s)) ELSE s

RECURSIVE StripTrailingZeros(_)
StripTrailingZeros(s) ==
    IF s # <<>> /\ s[Len(s)] = "0"
    THEN StripTrailingZeros(SubSeq(s, 1, Len(s) - 1))
    ELSE s

NumberText(value) ==
    LET negative == Head(value) = "-"
        unsigned == IF negative THEN Tail(value) ELSE value
        intLen == PrefixLen(unsigned, Digits)
        int == StripLeadingZeros(SubSeq(unsigned, 1, intLen))
        frac == StripTrailingZeros(Drop(unsigned, intLen + 1))
        magnitude == IF frac = <<>> THEN int ELSE int \o <<".">> \o frac
    IN  IF negative /\ magnitude # <<"0">> THEN <<"-">> \o magnitude ELSE magnitude

TrueText == <<"t", "r", "u", "e">>
FalseText == <<"f", "a", "l", "s", "e">>

\* value.match(/^(["'])(.*)\1$/)
IsQuoted(value) ==
    /\ Len(value) >= 2
    /\ Head(value) \in {"\"", "'"}
    /\ value[Len(value)] = Head(value)
    /\ NoLineTerminator(SubSeq(value, 2, Len(value) - 1))

coerceYamlScalar(value) ==
    IF IsQuoted(value) THEN StringValue(SubSeq(value, 2, Len(value) - 1))
    ELSE IF value = TrueText THEN BooleanValue(TrueText)
    ELSE IF value = FalseText THEN BooleanValue(FalseText)
    ELSE IF IsNumeric(value) THEN NumberValue(NumberText(value))
    ELSE StringValue(value)

\* a JavaScript object: property lookup, and assignment to a property
HasKey(obj, key) == \E i \in 1..Len(obj) : obj[i].key = key

GetValue(obj, key) ==
    LET i == CHOOSE i \in 1..Len(obj) : obj[i].key = key IN obj[i].value

SetValue(obj, key, value) ==
    IF HasKey(obj, key)
    THEN [i \in 1..Len(obj) |->
            IF obj[i].key = key THEN [key |-> key, value |-> value] ELSE obj[i]]
    ELSE Append(obj, [key |-> key, value |-> value])

\* !line || !line.trim() || line.trim().startsWith("#")
IsSkippedLine(line) ==
    \/ line = <<>>
    \/ Trim(line) = <<>>
    \/ Head(Trim(line)) = "#"

\* line.match(/^\s*-\s+(.*)$/), and its group 1
ListItemRest(line) == TrimStart(Tail(TrimStart(line)))

IsListItem(line) ==
    LET a == TrimStart(line)
    IN  /\ Len(a) >= 2
        /\ a[1] = "-"
        /\ a[2] \in Whitespace
        /\ NoLineTerminator(ListItemRest(line))

\* line.match(/^([A-Za-z0-9_-]+):\s*(.*)$/), and its groups 1 and 2
KvKey(line) == SubSeq(line, 1, PrefixLen(line, KeyChars))
KvRest(line) == TrimStart(Drop(line, PrefixLen(line, KeyChars) + 1))

IsKv(line) ==
    LET n == PrefixLen(line, KeyChars)
    IN  /\ n >= 1
        /\ Len(line) > n
        /\ line[n + 1] = ":"
        /\ NoLineTerminator(KvRest(line))

\* null, the initial value of currentListKey; no key is the empty string
NoKey == <<>>

\* data[currentListKey].push(...), after the Array.isArray guard
PushItem(obj, key, item) ==
    LET cur == GetValue(obj, key)
        items == IF cur.t = "list" THEN cur.items ELSE <<>>
    IN  SetValue(obj, key, ListValue(Append(items, item)))

ParseLine_KeepOpen(st, line) ==
    IF IsSkippedLine(line) THEN st
    ELSE IF IsListItem(line) /\ st.currentListKey # NoKey
    THEN [st EXCEPT !.data =
            PushItem(st.data, st.currentListKey,
                     coerceYamlScalar(Trim(ListItemRest(line))))]
    ELSE IF ~IsKv(line) THEN st
    ELSE IF KvRest(line) = <<>>
    THEN [data |-> IF HasKey(st.data, KvKey(line)) THEN st.data
                   ELSE SetValue(st.data, KvKey(line), StringValue(<<>>)),
          currentListKey |-> KvKey(line)]
    ELSE [data |-> SetValue(st.data, KvKey(line), coerceYamlScalar(Trim(KvRest(line)))),
          currentListKey |-> st.currentListKey]

\* one iteration of the loop of parseSimpleYaml over the ls
ParseLine(st, line) ==
    IF IsSkippedLine(line) THEN st
    ELSE IF IsListItem(line) /\ st.currentListKey # NoKey
    THEN [st EXCEPT !.data =
            PushItem(st.data, st.currentListKey,
                     coerceYamlScalar(Trim(ListItemRest(line))))]
    ELSE IF ~IsKv(line) THEN st
    ELSE IF KvRest(line) = <<>>
    THEN [data |-> IF HasKey(st.data, KvKey(line)) THEN st.data
                   ELSE SetValue(st.data, KvKey(line), StringValue(<<>>)),
          currentListKey |-> KvKey(line)]
    ELSE [data |-> SetValue(st.data, KvKey(line), coerceYamlScalar(Trim(KvRest(line)))),
          currentListKey |-> NoKey]

\* yamlText.split(/\r?\n/)
RECURSIVE SplitLines(_)
SplitLines(text) ==
    LET n == PrefixLen(text, AllChars \ {"\n"})
        piece == SubSeq(text, 1, n)
    IN  IF n = Len(text) THEN <<piece>>
        ELSE LET line == IF piece # <<>> /\ piece[Len(piece)] = "\r"
                         THEN SubSeq(piece, 1, Len(piece) - 1)
                         ELSE piece
             IN  <<line>> \o SplitLines(Drop(text, n + 1))

RECURSIVE ParseLines(_, _)
ParseLines(st, ls) ==
    IF ls = <<>> THEN st ELSE ParseLines(ParseLine(st, Head(ls)), Tail(ls))

ParseStart == [data |-> <<>>, currentListKey |-> NoKey]

parseSimpleYaml(yamlText) == ParseLines(ParseStart, SplitLines(yamlText)).data

\* JSON.stringify of a string: quoted, with ", \ and control characters escaped
JsonEscape(c) ==
    CASE c = "\"" -> <<"\\", "\"">>
      [] c = "\\" -> <<"\\", "\\">>
      [] c = "\n" -> <<"\\", "n">>
      [] c = "\r" -> <<"\\", "r">>
      [] c = "\t" -> <<"\\", "t">>
      [] OTHER -> <<c>>

RECURSIVE JsonEscapeAll(_)
JsonEscapeAll(s) ==
    IF s = <<>> THEN <<>> ELSE JsonEscape(Head(s)) \o JsonEscapeAll(Tail(s))

JsonStringify(s) == <<"\"">> \o JsonEscapeAll(s) \o <<"\"">>

renderYamlScalar(value) ==
    IF value.t \in {"number", "boolean"} THEN value.s ELSE JsonStringify(value.s)

\* ls.join("\n")
RECURSIVE JoinLines(_)
JoinLines(ls) ==
    IF ls = <<>> THEN <<>>
    ELSE IF Len(ls) = 1 THEN Head(ls)
    ELSE Head(ls) \o <<"\n">> \o JoinLines(Tail(ls))

renderYamlKeyValue(key, value) ==
    IF value.t = "list"
    THEN key \o <<":", "\n">>
           \o JoinLines([i \in 1..Len(value.items) |->
                           <<" ", " ", "-", " ">> \o renderYamlScalar(value.items[i])])
    ELSE key \o <<":", " ">> \o renderYamlScalar(value)

\* value === undefined || value === null || value === ""
IsOmitted(value) ==
    \/ value.t = "undefined"
    \/ value.t = "string" /\ value.s = <<>>

IsRendered(entry) == ~IsOmitted(entry.value)

Delimiter == <<"-", "-", "-">>

formatFrontmatter(obj, text) ==
    LET kept == SelectSeq(obj, IsRendered)
        yamlLines == [i \in 1..Len(kept) |-> renderYamlKeyValue(kept[i].key, kept[i].value)]
        trimmedBody == Trim(text)
    IN  IF yamlLines = <<>> THEN trimmedBody \o <<"\n">>
        ELSE Delimiter \o <<"\n">> \o JoinLines(yamlLines) \o <<"\n">>
               \o Delimiter \o <<"\n", "\n">> \o trimmedBody \o <<"\n">>

StartsWithAt(s, i, pat) ==
    /\ i >= 1
    /\ i + Len(pat) - 1 <= Len(s)
    /\ SubSeq(s, i, i + Len(pat) - 1) = pat

\* doc.match(/^---\s*\r?\n([\s\S]*?)\r?\n---\s*\r?\n?([\s\S]*)$/)
\* OpenEnds: where the "\n" of the opening `---\s*\r?\n` can match
OpenEnds(doc) ==
    IF ~StartsWithAt(doc, 1, Delimiter) THEN {}
    ELSE {p \in 4..Len(doc) :
            /\ doc[p] = "\n"
            /\ \A j \in 4..(p - 1) : doc[j] \in Whitespace}

\* the length of `\r?\n---` matched at position e, 0 when it does not match
CloseLen(doc, e) ==
    IF StartsWithAt(doc, e, <<"\r", "\n">> \o Delimiter) THEN 5
    ELSE IF StartsWithAt(doc, e, <<"\n">> \o Delimiter) THEN 4
    ELSE 0

CloseStarts(doc, p) == {e \in (p + 1)..Len(doc) : CloseLen(doc, e) > 0}

SetMax(S) == CHOOSE x \in S : \A y \in S : y <= x
SetMin(S) == CHOOSE x \in S : \A y \in S : x <= y

parseFrontmatter(doc) ==
    LET opens == {p \in OpenEnds(doc) : CloseStarts(doc, p) # {}}
    IN  IF opens = {} THEN [data |-> <<>>, body |-> doc]
        ELSE LET p == SetMax(opens)         \* \s* is greedy
                 e == SetMin(CloseStarts(doc, p))   \* ([\s\S]*?) is lazy
                 after == Drop(doc, e + CloseLen(doc, e) - 1)
             IN  [data |-> parseSimpleYaml(SubSeq(doc, p + 1, e - 1)),
                  body |-> TrimStart(after)]

(***************************************************************************)
(* The installers                                                          *)
(*                                                                         *)
(* A directory is a function from file names to contents, and skills/ and  *)
(* prompts/ are functions from names to directories and to contents. The   *)
(* content of a written file is the record of what formatFrontmatter is    *)
(* given to write it; a file the run did not write holds "old".            *)
(***************************************************************************)
EmptyMap == [n \in {} |-> <<>>]

SkillFile == "SKILL.md"

\* copyDir(skill.sourceDir, target): the files of the source replace those of
\* the same name in the target; the target's other files stay
copyDir(sourceDir, root, name) ==
    LET merged == IF name \in DOMAIN root THEN sourceDir @@ root[name] ELSE sourceDir
    IN  (name :> merged) @@ root

\* ensureDir(dir) and fs.writeFile(path.join(dir, file), content)
WriteInDir(root, name, file, content) ==
    LET dir == IF name \in DOMAIN root THEN root[name] ELSE EmptyMap
    IN  (name :> ((file :> content) @@ dir)) @@ root

RECURSIVE CopySkills(_, _)
CopySkills(root, skillList) ==
    IF skillList = <<>> THEN root
    ELSE CopySkills(copyDir(Head(skillList).sourceDir, root, Head(skillList).name),
                    Tail(skillList))

DefaultSchema == [present |-> TRUE, value |-> "https://opencode.ai/config.json"]
Absent == [present |-> FALSE, value |-> ""]
NoCommandMap == [kind |-> "absent", map |-> <<>>]

\* `config = {}`
EmptyConfig ==
    [exists |-> TRUE, kind |-> "object", schema |-> Absent, foo |-> Absent,
     command |-> NoCommandMap]

\* config.$schema || "https://opencode.ai/config.json"
SchemaOrDefault(schema) ==
    IF schema.present /\ schema.value # "" THEN schema ELSE DefaultSchema

\* the body of the loop of installOpenCode over the commands
OcCommandStep_Overwrite(st, command) ==
    IF command.disableModelInvocation THEN st
    ELSE [st EXCEPT !.commandMap =
            SetValue(st.commandMap, command.name,
                     [description |-> command.description, template |-> command.body])]

OcCommandStep(st, command) ==
    IF command.disableModelInvocation THEN st
    ELSE IF HasKey(st.commandMap, command.name)
    THEN [st EXCEPT !.skippedCommands = Append(st.skippedCommands, command.name)]
    ELSE [st EXCEPT !.commandMap =
            SetValue(st.commandMap, command.name,
                     [description |-> command.description, template |-> command.body])]

RECURSIVE OcCommandLoop(_, _)
OcCommandLoop(st, commandList) ==
    IF commandList = <<>> THEN st
    ELSE OcCommandLoop(OcCommandStep(st, Head(commandList)), Tail(commandList))

\* installOpenCode(opencodeRoot, commands, skills) on a root holding
\* skills/ = skillsDir and opencode.json = configFile
installOpenCode(skillsDir, configFile, commandList, skillList) ==
    LET read == IF configFile.exists /\ configFile.kind = "object"
                THEN configFile ELSE EmptyConfig
        commandMap == IF read.command.kind = "object" THEN read.command.map ELSE <<>>
        done == OcCommandLoop([commandMap |-> commandMap, skippedCommands |-> <<>>],
                              commandList)
    IN  [skills |-> CopySkills(skillsDir, skillList),
         config |-> [exists |-> TRUE, kind |-> "object",
                     schema |-> SchemaOrDefault(read.schema),
                     foo |-> read.foo,
                     command |-> [kind |-> "object", map |-> done.commandMap]],
         result |-> [skippedCommands |-> done.skippedCommands]]

\* for (const skill of skills) usedSkillNames.add(normalizeName(skill.name))
SkillNamesUsed_Raw(skillList) ==
    {skillList[i].name : i \in 1..Len(skillList)}

SkillNamesUsed(skillList) ==
    {normalizeName(skillList[i].name) : i \in 1..Len(skillList)}

NoNames == [suppressed |-> TRUE, promptName |-> <<>>, genSkillName |-> <<>>]

GeneratedSkill(genSkillName, command) ==
    [kind |-> "generated skill", skill |-> genSkillName, command |-> command]

GeneratedPrompt(genSkillName, command) ==
    [kind |-> "generated prompt", skill |-> genSkillName, command |-> command]

CxCommandStep_ReserveFirst(st, command) ==
    LET promptName == uniqueName(normalizeName(command.name), st.promptNames)
        genSkillName == uniqueName(normalizeName(command.name), st.usedSkillNames)
    IN  IF command.disableModelInvocation
        THEN [st EXCEPT !.names = Append(st.names, NoNames),
                        !.promptNames = st.promptNames \cup {promptName},
                        !.usedSkillNames = st.usedSkillNames \cup {genSkillName}]
        ELSE [st EXCEPT
                !.promptNames = st.promptNames \cup {promptName},
                !.usedSkillNames = st.usedSkillNames \cup {genSkillName},
                !.skills = WriteInDir(st.skills, genSkillName, SkillFile,
                                      GeneratedSkill(genSkillName, command)),
                !.prompts = (promptName :> GeneratedPrompt(genSkillName, command))
                               @@ st.prompts,
                !.overwrittenSkills =
                    IF genSkillName \in DOMAIN st.skills
                       /\ SkillFile \in DOMAIN st.skills[genSkillName]
                    THEN Append(st.overwrittenSkills, genSkillName)
                    ELSE st.overwrittenSkills,
                !.overwrittenPrompts =
                    IF promptName \in DOMAIN st.prompts
                    THEN Append(st.overwrittenPrompts, promptName)
                    ELSE st.overwrittenPrompts,
                !.written = st.written \o <<[dir |-> "skills", name |-> genSkillName],
                                             [dir |-> "prompts", name |-> promptName]>>,
                !.names = Append(st.names,
                                 [suppressed |-> FALSE, promptName |-> promptName,
                                  genSkillName |-> genSkillName])]

\* the body of the loop of installCodex over the commands. `names` records
\* the two names of each command and `written` the files fs.writeFile wrote
CxCommandStep(st, command) ==
    IF command.disableModelInvocation
    THEN [st EXCEPT !.names = Append(st.names, NoNames)]
    ELSE LET promptName == uniqueName(normalizeName(command.name), st.promptNames)
             genSkillName == uniqueName(normalizeName(command.name), st.usedSkillNames)
         IN  [st EXCEPT
                !.promptNames = st.promptNames \cup {promptName},
                !.usedSkillNames = st.usedSkillNames \cup {genSkillName},
                !.skills = WriteInDir(st.skills, genSkillName, SkillFile,
                                      GeneratedSkill(genSkillName, command)),
                !.prompts = (promptName :> GeneratedPrompt(genSkillName, command))
                               @@ st.prompts,
                !.overwrittenSkills =
                    IF genSkillName \in DOMAIN st.skills
                       /\ SkillFile \in DOMAIN st.skills[genSkillName]
                    THEN Append(st.overwrittenSkills, genSkillName)
                    ELSE st.overwrittenSkills,
                !.overwrittenPrompts =
                    IF promptName \in DOMAIN st.prompts
                    THEN Append(st.overwrittenPrompts, promptName)
                    ELSE st.overwrittenPrompts,
                !.written = st.written \o <<[dir |-> "skills", name |-> genSkillName],
                                             [dir |-> "prompts", name |-> promptName]>>,
                !.names = Append(st.names,
                                 [suppressed |-> FALSE, promptName |-> promptName,
                                  genSkillName |-> genSkillName])]

RECURSIVE CxCommandLoop(_, _)
CxCommandLoop(st, commandList) ==
    IF commandList = <<>> THEN st
    ELSE CxCommandLoop(CxCommandStep(st, Head(commandList)), Tail(commandList))

\* installCodex(codexRoot, commands, skills) on a root holding
\* skills/ = skillsDir and prompts/ = promptsDir
installCodex(skillsDir, promptsDir, commandList, skillList) ==
    LET done ==
            CxCommandLoop(
                [usedSkillNames |-> SkillNamesUsed(skillList),
                 promptNames |-> {},
                 skills |-> CopySkills(skillsDir, skillList),
                 prompts |-> promptsDir,
                 overwrittenPrompts |-> <<>>,
                 overwrittenSkills |-> <<>>,
                 written |-> <<>>,
                 names |-> <<>>],
                commandList)
    IN  [skills |-> done.skills,
         prompts |-> done.prompts,
         names |-> done.names,
         written |-> done.written,
         result |-> [overwrittenPrompts |-> done.overwrittenPrompts,
                     overwrittenSkills |-> done.overwrittenSkills]]

(***************************************************************************)
(* Driver of normalizeName: one call, then a second call on its result     *)
(***************************************************************************)
NameAlphabet == {"A", "b", "1", "_", "-", "/", "\\", ":", " ", "!"}

RECURSIVE SeqsUpTo(_, _)
SeqsUpTo(S, n) ==
    IF n = 0 THEN {<<>>}
    ELSE LET shorter == SeqsUpTo(S, n - 1)
         IN  shorter \cup {Append(s, c) : s \in {t \in shorter : Len(t) = n - 1}, c \in S}

NmIdle ==
    /\ nmPc = "off"
    /\ nmValue = <<>>
    /\ nmResult = <<>>
    /\ nmAgain = <<>>

NmInit ==
    /\ nmPc = "start"
    /\ nmValue \in SeqsUpTo(NameAlphabet, MaxNameLen)
    /\ nmResult = <<>>
    /\ nmAgain = <<>>

NmNormalize ==
    /\ nmPc = "start"
    /\ nmResult' = normalizeName(nmValue)
    /\ nmPc' = "once"
    /\ UNCHANGED <<nmValue, nmAgain>>

NmNormalizeAgain ==
    /\ nmPc = "once"
    /\ nmAgain' = normalizeName(nmResult)
    /\ nmPc' = "twice"
    /\ UNCHANGED <<nmValue, nmResult>>

(***************************************************************************)
(* Driver of uniqueName: a sequence of calls against one set               *)
(***************************************************************************)
X == <<"x">>
Y == <<"y">>
X2 == <<"x", "-", "2">>
X3 == <<"x", "-", "3">>
X22 == <<"x", "-", "2", "-", "2">>

UnSeedPool == {X, Y, X2, X3, X22}
UnBasePool == {X, Y, X2}

UnIdle ==
    /\ unPc = "off"
    /\ used = {}
    /\ usedInitial = {}
    /\ usedBefore = {}
    /\ lastBase = <<>>
    /\ returned = <<>>

UnInit ==
    /\ unPc = "ready"
    /\ used \in SUBSET UnSeedPool
    /\ usedInitial = used
    /\ usedBefore = used
    /\ lastBase = <<>>
    /\ returned = <<>>

UnCall(base) ==
    /\ unPc = "ready"
    /\ Len(returned) < MaxCalls
    /\ LET name == uniqueName(base, used)
       IN  /\ used' = used \cup {name}
           /\ returned' = Append(returned, name)
    /\ usedBefore' = used
    /\ lastBase' = base
    /\ UNCHANGED <<unPc, usedInitial>>

(***************************************************************************)
(* Driver of parseSimpleYaml: the loop, one header line per step           *)
(***************************************************************************)
LineOpenK == <<"k", ":">>
LineOpenJ == <<"j", ":", " ">>
LineScalarK == <<"k", ":", " ", "5">>
LineScalarJ == <<"j", ":", " ", "'", "x", "'">>
LineItemX == <<"-", " ", "x">>
LineItem7 == <<" ", " ", "-", " ", "0", "7">>
LineComment == <<"#", " ", "k", ":", " ", "1">>
LineBlank == <<" ", " ">>
LineDashWord == <<"-", "x">>
LineIndentedKv == <<" ", "k", ":", " ", "x">>

LinePool ==
    {LineOpenK, LineOpenJ, LineScalarK, LineScalarJ, LineItemX, LineItem7,
     LineComment, LineBlank, LineDashWord, LineIndentedKv}

YmIdle ==
    /\ ymPc = "off"
    /\ lines = <<>>
    /\ lineIdx = 0
    /\ data = <<>>
    /\ currentListKey = NoKey
    /\ prevData = <<>>
    /\ prevKey = NoKey

YmInit ==
    /\ ymPc = "loop"
    /\ lines \in SeqsUpTo(LinePool, MaxLines)
    /\ lineIdx = 0
    /\ data = ParseStart.data
    /\ currentListKey = ParseStart.currentListKey
    /\ prevData = <<>>
    /\ prevKey = NoKey

YmLine ==
    /\ ymPc = "loop"
    /\ lineIdx < Len(lines)
    /\ LET st == ParseLine([data |-> data, currentListKey |-> currentListKey],
                           lines[lineIdx + 1])
       IN  /\ data' = st.data
           /\ currentListKey' = st.currentListKey
    /\ lineIdx' = lineIdx + 1
    /\ prevData' = data
    /\ prevKey' = currentListKey
    /\ UNCHANGED <<ymPc, lines>>

(***************************************************************************)
(* Driver of the codec: a header the parser produced is formatted with a   *)
(* body, and the document is parsed again                                  *)
(***************************************************************************)
LineQuote == <<"j", ":", " ", "a", "\"", "b">>
LineBackslash == <<"j", ":", " ", "a", "\\", "b">>
LineString == <<"j", ":", " ", "x">>
LineBool == <<"j", ":", " ", "t", "r", "u", "e">>

HeaderLinePool ==
    {LineOpenK, LineScalarK, LineItemX, LineQuote, LineBackslash, LineString, LineBool}

BodyPool == {<<>>, <<"x">>, <<" ", "x", "\n">>, <<"x", "\n", "\n", "y">>}

FmIdle ==
    /\ fmPc = "off"
    /\ fmHeader = <<>>
    /\ fmBody = <<>>
    /\ fmRaw = <<>>
    /\ fmParsed = [data |-> <<>>, body |-> <<>>]

FmInit ==
    /\ fmPc = "start"
    /\ \E ls \in SeqsUpTo(HeaderLinePool, MaxHeaderLines) :
          fmHeader = parseSimpleYaml(JoinLines(ls))
    /\ fmBody \in BodyPool
    /\ fmRaw = <<>>
    /\ fmParsed = [data |-> <<>>, body |-> <<>>]

FmFormat ==
    /\ fmPc = "start"
    /\ fmRaw' = formatFrontmatter(fmHeader, fmBody)
    /\ fmPc' = "formatted"
    /\ UNCHANGED <<fmHeader, fmBody, fmParsed>>

FmParse ==
    /\ fmPc = "formatted"
    /\ fmParsed' = parseFrontmatter(fmRaw)
    /\ fmPc' = "parsed"
    /\ UNCHANGED <<fmHeader, fmBody, fmRaw>>

(***************************************************************************)
(* Driver of the installers: a loaded plugin and two destination roots;    *)
(* each installer may run any number of times                              *)
(***************************************************************************)
NameA == <<"a">>
NameUpperA == <<"A">>
NameA2 == <<"a", "-", "2">>

Described(text) == [present |-> TRUE, value |-> text]

CmdReview ==
    [name |-> NameA, description |-> Described("Review code"),
     body |-> "Do the review.", disableModelInvocation |-> FALSE]
CmdUpper ==
    [name |-> NameUpperA, description |-> Absent,
     body |-> "Upper.", disableModelInvocation |-> FALSE]
CmdSecond ==
    [name |-> NameA2, description |-> Described("Second"),
     body |-> "Second.", disableModelInvocation |-> FALSE]
CmdHidden ==
    [name |-> NameA, description |-> Described("Hidden"),
     body |-> "Hidden.", disableModelInvocation |-> TRUE]

CommandPool == {CmdReview, CmdUpper, CmdSecond, CmdHidden}

NoCommand ==
    [name |-> <<>>, description |-> Absent, body |-> "", disableModelInvocation |-> FALSE]

\* a file that was in the destination before any run, and a file of a plugin skill
ExistingFile == [kind |-> "existing", skill |-> <<>>, command |-> NoCommand]
PluginFile(name) == [kind |-> "plugin skill", skill |-> name, command |-> NoCommand]

ExistingDir == SkillFile :> ExistingFile

SkillA == [name |-> NameA, sourceDir |-> SkillFile :> PluginFile(NameA)]
SkillUpper == [name |-> NameUpperA, sourceDir |-> SkillFile :> PluginFile(NameUpperA)]

SkillLists == {<<>>, <<SkillA>>, <<SkillUpper>>}

ExistingEntry == [description |-> Described("existing"), template |-> "existing"]

\* the OpenCode root before the first run: skills/ and opencode.json
OcRoots ==
    {[skills |-> EmptyMap,
      config |-> [exists |-> FALSE, kind |-> "object", schema |-> Absent, foo |-> Absent,
                  command |-> NoCommandMap]],
     [skills |-> EmptyMap,
      config |-> [exists |-> TRUE, kind |-> "array", schema |-> Absent, foo |-> Absent,
                  command |-> NoCommandMap]],
     [skills |-> NameA :> ExistingDir,
      config |-> [exists |-> TRUE, kind |-> "object", schema |-> Absent,
                  foo |-> Described("1"), command |-> NoCommandMap]],
     [skills |-> EmptyMap,
      config |-> [exists |-> TRUE, kind |-> "object", schema |-> Described(""),
                  foo |-> Described("1"),
                  command |-> [kind |-> "array", map |-> <<>>]]],
     [skills |-> EmptyMap,
      config |-> [exists |-> TRUE, kind |-> "object", schema |-> Described("custom"),
                  foo |-> Described("1"),
                  command |-> [kind |-> "object",
                               map |-> <<[key |-> NameA, value |-> ExistingEntry]>>]]],
     [skills |-> EmptyMap,
      config |-> [exists |-> TRUE, kind |-> "object", schema |-> Described("custom"),
                  foo |-> Absent,
                  command |-> [kind |-> "object",
                               map |-> <<[key |-> NameA2, value |-> ExistingEntry],
                                         [key |-> NameUpperA, value |-> ExistingEntry]>>]]]}

\* the Codex root before the first run: skills/ and prompts/
CxRoots ==
    {[skills |-> EmptyMap, prompts |-> EmptyMap],
     [skills |-> NameA :> ExistingDir, prompts |-> NameA :> ExistingFile],
     [skills |-> NameA2 :> ExistingDir, prompts |-> EmptyMap]}

NoOcRun ==
    [ran |-> FALSE,
     before |-> [skills |-> EmptyMap, config |-> EmptyConfig],
     result |-> [skippedCommands |-> <<>>]]

NoCxRun ==
    [ran |-> FALSE,
     before |-> [skills |-> EmptyMap, prompts |-> EmptyMap],
     names |-> <<>>,
     written |-> <<>>,
     result |-> [overwrittenPrompts |-> <<>>, overwrittenSkills |-> <<>>]]

InIdle ==
    /\ inPc = "off"
    /\ commands = <<>>
    /\ skills = <<>>
    /\ ocSkills = EmptyMap
    /\ ocConfig = EmptyConfig
    /\ ocLast = NoOcRun
    /\ ocEarlier = NoOcRun
    /\ cxSkills = EmptyMap
    /\ cxPrompts = EmptyMap
    /\ cxLast = NoCxRun
    /\ cxEarlier = NoCxRun

InInit ==
    /\ inPc = "loaded"
    /\ commands \in SeqsUpTo(CommandPool, MaxCommands)
    /\ skills \in SkillLists
    /\ \E root \in OcRoots : ocSkills = root.skills /\ ocConfig = root.config
    /\ ocLast = NoOcRun
    /\ ocEarlier = NoOcRun
    /\ \E root \in CxRoots : cxSkills = root.skills /\ cxPrompts = root.prompts
    /\ cxLast = NoCxRun
    /\ cxEarlier = NoCxRun

\* `if (toOpenCode) ... await installOpenCode(opencodeRoot, commands, skills)`
RunInstallOpenCode ==
    /\ inPc = "loaded"
    /\ LET run == installOpenCode(ocSkills, ocConfig, commands, skills)
       IN  /\ ocSkills' = run.skills
           /\ ocConfig' = run.config
           /\ ocLast' = [ran |-> TRUE,
                         before |-> [skills |-> ocSkills, config |-> ocConfig],
                         result |-> run.result]
    /\ ocEarlier' = ocLast
    /\ UNCHANGED <<inPc, commands, skills, cxSkills, cxPrompts, cxLast, cxEarlier>>

\* `if (toCodex) ... await installCodex(codexRoot, commands, skills)`
RunInstallCodex ==
    /\ inPc = "loaded"
    /\ LET run == installCodex(cxSkills, cxPrompts, commands, skills)
       IN  /\ cxSkills' = run.skills
           /\ cxPrompts' = run.prompts
           /\ cxLast' = [ran |-> TRUE,
                         before |-> [skills |-> cxSkills, prompts |-> cxPrompts],
                         names |-> run.names,
                         written |-> run.written,
                         result |-> run.result]
    /\ cxEarlier' = cxLast
    /\ UNCHANGED <<inPc, commands, skills, ocSkills, ocConfig, ocLast, ocEarlier>>

(***************************************************************************)
(* Specifications                                                          *)
(***************************************************************************)
NormInit == NmInit /\ UnIdle /\ YmIdle /\ FmIdle /\ InIdle
NormNext ==
    \/ NmNormalize /\ UNCHANGED <<unVars, ymVars, fmVars, inVars>>
    \/ NmNormalizeAgain /\ UNCHANGED <<unVars, ymVars, fmVars, inVars>>
SpecNorm == NormInit /\ [][NormNext]_vars

UniqInit == UnInit /\ NmIdle /\ YmIdle /\ FmIdle /\ InIdle
UniqNext ==
    \E base \in UnBasePool : UnCall(base) /\ UNCHANGED <<nmVars, ymVars, fmVars, inVars>>
SpecUniq == UniqInit /\ [][UniqNext]_vars

YamlInit == YmInit /\ NmIdle /\ UnIdle /\ FmIdle /\ InIdle
YamlNext == YmLine /\ UNCHANGED <<nmVars, unVars, fmVars, inVars>>
SpecYaml == YamlInit /\ [][YamlNext]_vars

CodecInit == FmInit /\ NmIdle /\ UnIdle /\ YmIdle /\ InIdle
CodecNext ==
    \/ FmFormat /\ UNCHANGED <<nmVars, unVars, ymVars, inVars>>
    \/ FmParse /\ UNCHANGED <<nmVars, unVars, ymVars, inVars>>
SpecCodec == CodecInit /\ [][CodecNext]_vars

Init == InInit /\ NmIdle /\ UnIdle /\ YmIdle /\ FmIdle
Next ==
    \/ RunInstallOpenCode /\ UNCHANGED <<nmVars, unVars, ymVars, fmVars>>
    \/ RunInstallCodex /\ UNCHANGED <<nmVars, unVars, ymVars, fmVars>>
Spec == Init /\ [][Next]_vars

(***************************************************************************)
(* C9  normalizeName                                                       *)
(***************************************************************************)
KeptChars == LowerCase \cup Digits \cup {"_"}
IsKept(c) == c \in KeptChars
IsNotDash(c) == c # "-"

\* the characters of the input that survive: lower-cased letters, digits, "_"
Kept(value) == SelectSeq(toLowerCase(value), IsKept)

SlugShape(s) ==
    /\ s # <<>>
    /\ \A i \in 1..Len(s) : s[i] \in SlugChars
    /\ s[1] # "-"
    /\ s[Len(s)] # "-"
    /\ \A i \in 1..(Len(s) - 1) : ~(s[i] = "-" /\ s[i + 1] = "-")

\* C9: normalizeName returns, for every input, a non-empty string over
\* [a-z0-9_-] with no leading, trailing or doubled "-"; it is the placeholder
\* "item" exactly when no letter, digit or "_" of the input remains, and
\* otherwise keeps those characters in order; normalizing the result again
\* returns it unchanged.
C9_Normalize ==
    /\ nmPc \in {"once", "twice"} =>
          /\ SlugShape(nmResult)
          /\ (Kept(nmValue) = <<>>) <=> (nmResult = Placeholder)
          /\ Kept(nmValue) # <<>> => SelectSeq(nmResult, IsNotDash) = Kept(nmValue)
    /\ nmPc = "twice" => nmAgain = nmResult

\* an input with separators, a disallowed character and upper case was
\* normalized twice
C9_Witness ==
    /\ nmPc = "twice"
    /\ nmValue = <<"/", "A", "!", "b">>
    /\ nmResult = <<"a", "-", "b">>

(***************************************************************************)
(* C4  uniqueName                                                          *)
(***************************************************************************)
Range(s) == {s[i] : i \in 1..Len(s)}

\* C4: after any sequence of uniqueName calls against one set, the returned
\* names are pairwise distinct, none was in the set before its call, the set
\* is the initial set plus exactly the returned names, and the last returned
\* name is the base when the base was absent and otherwise base-k for the
\* smallest k >= 2 with base-k absent (k is at most the size of the set plus
\* one, which bounds the probing loop).
C4_UniqueName ==
    returned # <<>> =>
        LET name == returned[Len(returned)]
        IN  /\ name \notin usedBefore
            /\ used = usedBefore \cup {name}
            /\ \A i, j \in 1..Len(returned) : i # j => returned[i] # returned[j]
            /\ Range(returned) \cap usedInitial = {}
            /\ used = usedInitial \cup Range(returned)
            /\ Cardinality(used) = Cardinality(usedInitial) + Len(returned)
            /\ lastBase \notin usedBefore => name = lastBase
            /\ lastBase \in usedBefore =>
                  \E k \in 2..(Cardinality(usedBefore) + 1) :
                      /\ name = Suffixed(lastBase, k)
                      /\ \A j \in 2..(k - 1) : Suffixed(lastBase, j) \in usedBefore

\* the base x was taken, and so were x-2 and x-3: the call returned x-4; an
\* earlier call with the base x-2 returned x-2-2
C4_Witness ==
    /\ Len(returned) = 2
    /\ returned[1] = <<"x", "-", "2", "-", "2">>
    /\ lastBase = X
    /\ returned[2] = <<"x", "-", "4">>

(***************************************************************************)
(* C10  parseSimpleYaml                                                    *)
(***************************************************************************)
\* What each line of LinePool is, read by hand from the header grammar: its
\* kind, the key of a key line, the coerced value of a scalar or item line
LineShape(line) ==
    CASE line = LineOpenK -> [kind |-> "open", key |-> <<"k">>, value |-> StringValue(<<>>)]
      [] line = LineOpenJ -> [kind |-> "open", key |-> <<"j">>, value |-> StringValue(<<>>)]
      [] line = LineScalarK ->
            [kind |-> "scalar", key |-> <<"k">>, value |-> NumberValue(<<"5">>)]
      [] line = LineScalarJ ->
            [kind |-> "scalar", key |-> <<"j">>, value |-> StringValue(<<"x">>)]
      [] line = LineItemX -> [kind |-> "item", key |-> <<>>, value |-> StringValue(<<"x">>)]
      [] line = LineItem7 -> [kind |-> "item", key |-> <<>>, value |-> NumberValue(<<"7">>)]
      [] OTHER -> [kind |-> "ignored", key |-> <<>>, value |-> StringValue(<<>>)]

\* the key of the most recent key line, when that line had an empty value
RECURSIVE OpenKeyAfter(_)
OpenKeyAfter(ls) ==
    IF ls = <<>> THEN NoKey
    ELSE LET sh == LineShape(ls[Len(ls)])
         IN  IF sh.kind = "open" THEN sh.key
             ELSE IF sh.kind = "scalar" THEN NoKey
             ELSE OpenKeyAfter(SubSeq(ls, 1, Len(ls) - 1))

Entries(obj) == {obj[i] : i \in 1..Len(obj)}
Keys(obj) == {obj[i].key : i \in 1..Len(obj)}
ValueOf(obj, key) == (CHOOSE e \in Entries(obj) : e.key = key).value

\* obj is old with (at most) the value of key changed, to value
SetsOnly(obj, old, key, value) ==
    /\ Keys(obj) = Keys(old) \cup {key}
    /\ Cardinality(Keys(obj)) = Len(obj)
    /\ \A e \in Entries(old) : e.key # key => e \in Entries(obj)
    /\ ValueOf(obj, key) = value

C10_LastLine == lines[lineIdx]
C10_OpenBefore == OpenKeyAfter(SubSeq(lines, 1, lineIdx - 1))

C10_ItemRule ==
    LineShape(C10_LastLine).kind = "item" =>
        /\ currentListKey = prevKey
        /\ IF C10_OpenBefore = NoKey THEN data = prevData
           ELSE LET old == ValueOf(prevData, C10_OpenBefore)
                    items == IF old.t = "list" THEN old.items ELSE <<>>
                IN  SetsOnly(data, prevData, C10_OpenBefore,
                             ListValue(Append(items, LineShape(C10_LastLine).value)))

C10_ScalarRule ==
    LineShape(C10_LastLine).kind = "scalar" =>
        SetsOnly(data, prevData, LineShape(C10_LastLine).key, LineShape(C10_LastLine).value)

C10_IgnoredRule ==
    LineShape(C10_LastLine).kind = "ignored" =>
        data = prevData /\ currentListKey = prevKey

C10_OrphanItemReached ==
    /\ lineIdx = 3
    /\ lines = <<LineOpenK, LineScalarJ, LineItemX>>
    /\ currentListKey = NoKey
    /\ ValueOf(data, <<"k">>) = StringValue(<<>>)

(***************************************************************************)
(* C8  parseFrontmatter(formatFrontmatter(header, body))                   *)
(***************************************************************************)
\* C8: formatting a header the parser can produce with a body, and parsing
\* the result, gives back a mapping equal to the header and the trimmed body
C8_RoundTrip ==
    fmPc = "parsed" =>
        /\ Entries(fmParsed.data) = Entries(fmHeader)
        /\ fmParsed.body = Trim(fmBody)

\* C8, the mapping alone: it is violated too, by a header holding an empty
\* string (formatFrontmatter omits the key) and by one holding a string with
\* a quote or a backslash (JSON.stringify escapes it, coerceYamlScalar does
\* not undo the escape)
C8_MappingRoundTrip ==
    fmPc = "parsed" => Entries(fmParsed.data) = Entries(fmHeader)

(***************************************************************************)
(* The installers: what the claims speak of                                *)
(***************************************************************************)
IsLive(command) == ~command.disableModelInvocation
LiveIndexes == {i \in 1..Len(commands) : IsLive(commands[i])}
LiveNames == {commands[i].name : i \in LiveIndexes}
LiveCommands == SelectSeq(commands, IsLive)

\* the `command` map of a configuration file, empty when there is none
CommandMapOf(config) ==
    IF config.exists /\ config.kind = "object" /\ config.command.kind = "object"
    THEN config.command.map
    ELSE <<>>

\* the slug of each name of the pools, normalized by hand
SlugOf(name) ==
    CASE name = NameA -> <<"a">>
      [] name = NameUpperA -> <<"a">>
      [] name = NameA2 -> <<"a", "-", "2">>

PluginSkillNames == {skills[k].name : k \in 1..Len(skills)}
PluginSkillSlugs == {SlugOf(skills[k].name) : k \in 1..Len(skills)}

\* a list of a report, empty when the report has no such list
Reported(result, list) == IF list \in DOMAIN result THEN Range(result[list]) ELSE {}

(***************************************************************************)
(* C1  collision safety                                                    *)
(***************************************************************************)
\* C1: an artifact that was in the destination before a run (a skill
\* directory, a command entry of the configuration, a prompt file, a
\* generated skill document) has the same content after the run, which
\* reports it as skipped; neither installer takes an overwrite flag, so every
\* run is a run without overwrite
C1_CollisionSafety ==
    /\ ocLast.ran =>
          /\ \A n \in DOMAIN ocLast.before.skills : ocSkills[n] = ocLast.before.skills[n]
          /\ \A e \in Entries(CommandMapOf(ocLast.before.config)) :
                /\ e \in Entries(ocConfig.command.map)
                /\ e.key \in LiveNames => e.key \in Reported(ocLast.result, "skippedCommands")
    /\ cxLast.ran =>
          /\ \A n \in DOMAIN cxLast.before.prompts :
                /\ cxPrompts[n] = cxLast.before.prompts[n]
                /\ n \notin Reported(cxLast.result, "overwrittenPrompts")
          /\ \A n \in DOMAIN cxLast.before.skills :
                /\ cxSkills[n] = cxLast.before.skills[n]
                /\ n \notin Reported(cxLast.result, "overwrittenSkills")

(***************************************************************************)
(* C2  configuration merge                                                 *)
(***************************************************************************)
C2_Applies ==
    /\ ocLast.ran
    /\ ocLast.before.config.exists
    /\ ocLast.before.config.kind = "object"

\* the entry installOpenCode writes for a name: that of the first live
\* command of the name
C2_EntryFor(name) ==
    LET i == CHOOSE i \in LiveIndexes :
                /\ commands[i].name = name
                /\ \A j \in LiveIndexes : commands[j].name = name => i <= j
    IN  [description |-> commands[i].description, template |-> commands[i].body]

C2_CommandMapExtended ==
    LET old == CommandMapOf(ocLast.before.config)
        new == ocConfig.command.map
    IN  /\ ocConfig.command.kind = "object"
        /\ Len(new) >= Len(old)
        /\ SubSeq(new, 1, Len(old)) = old
        /\ Cardinality(Keys(new)) = Len(new)
        /\ \A i \in (Len(old) + 1)..Len(new) :
              /\ new[i].key \in LiveNames \ Keys(old)
              /\ new[i].value = C2_EntryFor(new[i].key)

C3_SecondRunSkips ==
    /\ (ocLast.ran /\ ocEarlier.ran) =>
          /\ \A n \in LiveNames : n \in Reported(ocLast.result, "skippedCommands")
          /\ ocConfig = ocLast.before.config
          /\ ocSkills = ocLast.before.skills
    /\ (cxLast.ran /\ cxEarlier.ran) =>
          /\ \A i \in LiveIndexes :
                cxEarlier.names[i].promptName \in Reported(cxLast.result, "skippedCommands")
          /\ cxPrompts = cxLast.before.prompts
          /\ cxSkills = cxLast.before.skills

(***************************************************************************)
(* C5  the names of one installCodex run                                   *)
(***************************************************************************)
\* the name uniqueName is to give: the slug when it is free, and otherwise
\* the slug with the smallest suffix -k, k >= 2, that is free
C5_IsFirstFree(name, slug, taken) ==
    IF slug \notin taken THEN name = slug
    ELSE \E k \in 2..(Cardinality(taken) + 1) :
            /\ name = Suffixed(slug, k)
            /\ name \notin taken
            /\ \A j \in 2..(k - 1) : Suffixed(slug, j) \in taken

C5_SkillNamesBefore(i) ==
    PluginSkillSlugs \cup {cxLast.names[j].genSkillName : j \in {j \in LiveIndexes : j < i}}

C5_PromptNamesBefore(i) ==
    {cxLast.names[j].promptName : j \in {j \in LiveIndexes : j < i}}

C5_NoDuplicates(s) == \A i, j \in 1..Len(s) : i # j => s[i] # s[j]

\* C5 (as amended): in one installCodex run every live command gets, in
\* input order, the generated skill name that is its slug when no plugin
\* skill (by normalized name) and no earlier command took it, and otherwise
\* the slug with the smallest suffix -k (k >= 2) not taken; its prompt name
\* likewise, against the prompt names of the earlier commands alone. The
\* generated skill names are pairwise distinct and differ from the raw and
\* the normalized name of every plugin skill, the prompt names are pairwise
\* distinct, no file is written twice and no generated skill is written
\* into the directory of a plugin skill.
C5_CodexNames ==
    cxLast.ran =>
        /\ Len(cxLast.names) = Len(commands)
        /\ \A i \in LiveIndexes :
              /\ C5_IsFirstFree(cxLast.names[i].genSkillName, SlugOf(commands[i].name),
                                C5_SkillNamesBefore(i))
              /\ C5_IsFirstFree(cxLast.names[i].promptName, SlugOf(commands[i].name),
                                C5_PromptNamesBefore(i))
              /\ cxLast.names[i].genSkillName \notin PluginSkillNames \cup PluginSkillSlugs
        /\ \A i, j \in LiveIndexes :
              i # j => /\ cxLast.names[i].genSkillName # cxLast.names[j].genSkillName
                       /\ cxLast.names[i].promptName # cxLast.names[j].promptName
        /\ C5_NoDuplicates(cxLast.written)
        /\ \A w \in Range(cxLast.written) :
              w.dir = "skills" => w.name \notin PluginSkillNames

\* how many live commands up to the i-th have the slug of the i-th
C5_Rank(i) ==
    Cardinality({j \in LiveIndexes :
                    j <= i /\ SlugOf(commands[j].name) = SlugOf(commands[i].name)})

\* C5 (as claimed): commands whose names normalize to the same slug get the
\* generated skill names slug, slug-2, ... in input order
C5_SlugThenNumbered ==
    cxLast.ran =>
        \A i \in LiveIndexes :
            cxLast.names[i].genSkillName =
                IF C5_Rank(i) = 1 THEN SlugOf(commands[i].name)
                ELSE Suffixed(SlugOf(commands[i].name), C5_Rank(i))

\* the plugin skill A reserved the slug a: the commands a and A got the
\* generated skill names a-2 and a-3 and the prompt names a and a-2
C5_Witness ==
    /\ cxLast.ran
    /\ skills = <<SkillUpper>>
    /\ commands = <<CmdReview, CmdUpper>>
    /\ cxLast.names[1].genSkillName = <<"a", "-", "2">>
    /\ cxLast.names[1].promptName = <<"a">>
    /\ cxLast.names[2].genSkillName = <<"a", "-", "3">>
    /\ cxLast.names[2].promptName = <<"a", "-", "2">>

(***************************************************************************)
(* C6  seeding of the used-name sets                                       *)
(***************************************************************************)
\* C6: no generated skill name and no prompt name chosen by the first run of
\* installCodex is the name of a skill directory or of a prompt file that was
\* in the destination before the run
C6_NoNameOfExistingArtifact ==
    (cxLast.ran /\ ~cxEarlier.ran) =>
        \A i \in LiveIndexes :
            /\ cxLast.names[i].genSkillName \notin DOMAIN cxLast.before.skills
            /\ cxLast.names[i].promptName \notin DOMAIN cxLast.before.prompts

(***************************************************************************)
(* C7  suppressed commands                                                 *)
(***************************************************************************)
C7_IsNamed(names) == ~names.suppressed

C7_OpenCode ==
    ocLast.ran =>
        LET alone == installOpenCode(ocLast.before.skills, ocLast.before.config,
                                     LiveCommands, skills)
            before == CommandMapOf(ocLast.before.config)
        IN  /\ \A i \in 1..Len(commands) :
                  commands[i].name \notin LiveNames =>
                      /\ commands[i].name \notin Reported(ocLast.result, "skippedCommands")
                      /\ commands[i].name \in Keys(ocConfig.command.map)
                            <=> commands[i].name \in Keys(before)
            /\ alone.config = ocConfig
            /\ alone.result = ocLast.result
            /\ \A i \in LiveIndexes : commands[i].name \in Keys(ocConfig.command.map)

C7_Codex ==
    cxLast.ran =>
        LET alone == installCodex(cxLast.before.skills, cxLast.before.prompts,
                                  LiveCommands, skills)
        IN  /\ \A i \in 1..Len(commands) :
                  cxLast.names[i].suppressed <=> commands[i].disableModelInvocation
            /\ alone.names = SelectSeq(cxLast.names, C7_IsNamed)
            /\ alone.written = cxLast.written
            /\ alone.result = cxLast.result
            /\ alone.skills = cxSkills
            /\ alone.prompts = cxPrompts
            /\ Len(cxLast.written) = 2 * Cardinality(LiveIndexes)
            /\ \A i \in LiveIndexes :
                  LET names == cxLast.names[i]
                  IN  /\ names.promptName \in DOMAIN cxPrompts
                      /\ cxPrompts[names.promptName] =
                            GeneratedPrompt(names.genSkillName, commands[i])
                      /\ names.genSkillName \in DOMAIN cxSkills
                      /\ cxSkills[names.genSkillName][SkillFile] =
                            GeneratedSkill(names.genSkillName, commands[i])

====
